---- MODULE Spec2Model ----
(***************************************************************************)
(* Opendati: the discovery-sampling-relevance pipeline.                    *)
(*                                                                         *)
(*   - src/src/app/api/chat/route.ts, lines 677-1083 (v1.4): the POST      *)
(*     handler, modelled as a state machine with one action per awaited    *)
(*     step (specification Spec);                                          *)
(*   - src/unnamed/part_004 (intelligentQuery.ts): entity extraction and   *)
(*     the CKAN query plan, pure functions applied to bounded inputs       *)
(*     (specification SpecPlan).                                           *)
(*                                                                         *)
(* Strings are modelled at the granularity the code inspects them: a       *)
(* question is a sequence of words, a URL is a stem and an extension, a    *)
(* serialized row is the sequence of its maximal word-character runs.      *)
(***************************************************************************)
EXTENDS Integers, Sequences, FiniteSets, TLC

\* ------------------------------------------------------------------------
\* Bounds of the model
\* ------------------------------------------------------------------------
\* longest catalog result list built from the dataset pool
MaxResults == 2

\* ------------------------------------------------------------------------
\* Program constants
\* ------------------------------------------------------------------------
\* fetchSampleData(url, expect, maxBytes = 1_000_000)
MaxBytes == 1000000
\* buildCKANUrl(q, rows = 50, ...)
SearchRows == 50
\* realDatasets = results.slice(0, 6)
MaxDatasets == 6
\* rows.slice(0, 20)
MaxRows == 20
\* lines ... .slice(0, 101)
MaxLines == 101
\* new Date().getUTCFullYear()
CurrentYear == 2026

Null == "null"

\* ------------------------------------------------------------------------
\* Generic sequence helpers (Array.prototype.slice / map / filter / Set)
\* ------------------------------------------------------------------------
Min(a, b) == IF a < b THEN a ELSE b

\* slice without the upper bound
TakeAll(s, n) == s

\* s.slice(0, n)
Take(s, n) == SubSeq(s, 1, Min(n, Len(s)))

SeqToSet(s) == { s[i] : i \in 1..Len(s) }

\* Array.from(new Set(s)): first occurrences, in order
RECURSIVE Dedup(_)
Dedup(s) ==
  IF s = <<>> THEN <<>>
  ELSE LET init == Dedup(SubSeq(s, 1, Len(s) - 1))
           x    == s[Len(s)]
       IN IF x \in SeqToSet(init) THEN init ELSE Append(init, x)

\* sequences over S of length 0..n
SeqsUpTo(S, n) == UNION { [1..k -> S] : k \in 0..n }

\* ------------------------------------------------------------------------
\* Words: String.prototype.toLowerCase and stripAccent on the vocabulary
\* ------------------------------------------------------------------------
toLowerCase(w) ==
  CASE w = "Milano"  -> "milano"
    [] w = "MILANO"  -> "milano"
    [] w = "Roma"    -> "roma"
    [] w = "Reati"   -> "reati"
    [] w = "Delitti" -> "delitti"
    [] w = "JSON"    -> "json"
    [] w = "CSV"     -> "csv"
    [] w = "XLS"     -> "xls"
    [] w = "PDF"     -> "pdf"
    [] w = ".JSON"   -> ".json"
    [] w = ".CSV"    -> ".csv"
    [] w = "ISTAT"   -> "istat"
    [] w = "COMUNE DI MILANO" -> "comune di milano"
    [] w = "Ministero dell'Interno" -> "ministero dell'interno"
    [] w = "Regione Lazio" -> "regione lazio"
    [] OTHER         -> w

\* s.normalize('NFD') followed by the removal of the combining marks; the
\* accented a of the vocabulary is written &agrave;
stripAccent(w) ==
  CASE w = "criminalit&agrave;" -> "criminalita"
    [] OTHER -> w

\* a.includes(b) for lower-case strings of the vocabulary
includes(a, b) ==
  \/ a = b
  \/ <<a, b>> \in { <<"application/json", "json">>, <<"text/csv", "csv">>,
                    <<"geojson", "json">>,
                    <<".json", "json">>, <<".csv", "csv">>,
                    <<"json-api", "json">>,
                    <<"comune-di-milano", "milano">>,
                    <<"comune di milano", "milano">>,
                    <<"ministero-interno", "interno">>,
                    <<"ministero dell'interno", "interno">>,
                    <<"milanofiori", "milano">> }

\* ------------------------------------------------------------------------
\* Questions: sequences of words
\* ------------------------------------------------------------------------
Questions ==
  { <<"Confronta", "i", "reati", "a", "Milano", "negli", "ultimi", "5", "anni">>,
    <<"delitti", "MILANO", "2021">>,
    <<"reati", "in", "Italia">>,
    <<"popolazione", "Roma">>,
    <<"crimini", "2023", "2021", "2023">> }

\* the questions put to the handler
HandlerQuestions ==
  { <<"Confronta", "i", "reati", "a", "Milano", "negli", "ultimi", "5", "anni">>,
    <<"reati", "in", "Italia">> }

\* /\bmilano\b/.test(question.toLowerCase())
MentionsMilano(question) ==
  \E i \in 1..Len(question) : toLowerCase(question[i]) = "milano"

\* topics are sequences of words: a multi-word topic contains a space
baseSyn ==
  << <<"reati">>, <<"delitti">>, <<"criminalit&agrave;">>, <<"crimini">>,
     <<"reati", "denunciati">> >>

stripAccentTopic(t) == [i \in 1..Len(t) |-> stripAccent(t[i])]

extractKeywords(question) ==
  [ city   |-> IF MentionsMilano(question) THEN "Milano" ELSE Null,
    topics |-> Dedup(baseSyn \o [i \in 1..Len(baseSyn) |-> stripAccentTopic(baseSyn[i])]),
    years  |-> [startYear |-> CurrentYear - 4, endYear |-> CurrentYear] ]

\* ------------------------------------------------------------------------
\* CKAN requests.  The URL is the tuple of its encoded parameters
\* (encodeURIComponent is injective, so two URLs are equal exactly when
\* query text, row cap, filters and sort are equal).
\* A query text is a list of OR-joined topic terms followed by an optional
\* geography term; a term is a topic (a sequence of words) with or without
\* quotes.
\* ------------------------------------------------------------------------
Term(t, quoted) == [w |-> t, quoted |-> quoted]

QueryText(terms, geo) == [terms |-> terms, geo |-> geo]

buildCKANUrl(q, rows, fq) ==
  [q |-> q, rows |-> rows, fq |-> fq, sort |-> "metadata_modified desc"]

\* the facet request of discoverFacets: rows=0, facet.field=..., no sort
FacetUrl(topics, city) ==
  [q |-> QueryText([i \in 1..Len(topics) |-> Term(topics[i], FALSE)],
                   IF city = Null THEN <<>> ELSE <<Term(<<city>>, FALSE)>>),
   rows |-> 0, fq |-> <<>>, sort |-> "facets"]

\* facets: for each facet field the list of item names; a field the portal
\* does not index and a field with no items both make pickFacetValue
\* return null, so both are the empty list
FacetFields == {"organization", "holder_name", "publisher_name", "res_format"}

NoFacets == [k \in FacetFields |-> <<>>]

HolderFacets ==
  [ organization   |-> <<"regione-lazio">>,
    holder_name    |-> <<"ISTAT", "Ministero dell'Interno">>,
    publisher_name |-> <<>>,
    res_format     |-> <<"CSV">> ]

MilanoFacets ==
  [ organization   |-> <<"regione-lazio", "comune-di-milano">>,
    holder_name    |-> <<>>,
    publisher_name |-> <<>>,
    res_format     |-> <<"PDF", "JSON">> ]

\* the facet sets the catalog answers the handler with
FacetSets == {MilanoFacets, HolderFacets}

\* const facetHas = (k) => facets && facets[k] && Array.isArray(facets[k].items)
facetHas(facets, k) == facets.ok /\ facets.f[k] # <<>>

\* items.find(it => includes.some(s => it.name.toLowerCase().includes(s)))?.name || null
pickFacetValue(facets, key, incl) ==
  IF ~facetHas(facets, key) THEN Null
  ELSE LET items == facets.f[key]
           hits  == { i \in 1..Len(items) :
                        \E s \in incl : includes(toLowerCase(items[i]), s) }
       IN IF hits = {} THEN Null
          ELSE items[CHOOSE i \in hits : \A j \in hits : i <= j]

Opt(cond, v) == IF cond THEN <<v>> ELSE <<>>

Variant(label, q, fq) == [label |-> label, url |-> buildCKANUrl(q, SearchRows, fq)]

Fq(field, value, quoted) == [field |-> field, value |-> value, quoted |-> quoted]

buildVariants(topics, city, facets) ==
  LET isMulti(t)  == Len(t) > 1
      isSingle(t) == Len(t) = 1
      multi     == SelectSeq(topics, isMulti)
      single    == SelectSeq(topics, isSingle)
      quotedOf(s) == [i \in 1..Len(s) |-> Term(s[i], TRUE)]
      plainOf(s)  == [i \in 1..Len(s) |-> Term(s[i], FALSE)]
      strictQ   == quotedOf(single) \o quotedOf(multi)
      looseQ    == plainOf(single) \o quotedOf(multi)
      cityStrict == IF city # Null THEN <<Term(<<city>>, TRUE)>> ELSE <<>>
      cityLoose  == IF city # Null THEN <<Term(<<city>>, FALSE)>> ELSE <<>>
      orgIstat    == pickFacetValue(facets, "organization", {"istat"})
      orgInterno  == pickFacetValue(facets, "organization", {"interno"})
      orgMilano   == pickFacetValue(facets, "organization", {"milano"})
      holdIstat   == pickFacetValue(facets, "holder_name", {"istat"})
      holdInterno == pickFacetValue(facets, "holder_name", {"interno"})
      holdMilano  == pickFacetValue(facets, "holder_name", {"milano", "comune di milano"})
      pubMilano   == pickFacetValue(facets, "publisher_name", {"milano"})
      hasCSV      == pickFacetValue(facets, "res_format", {"csv"})
      hasJSON     == pickFacetValue(facets, "res_format", {"json"})
      lq          == QueryText(looseQ, cityLoose)
  IN  << Variant("strict+city", QueryText(strictQ, cityStrict), <<>>),
         Variant("loose+city",  QueryText(looseQ, cityLoose), <<>>),
         Variant("strict",      QueryText(strictQ, <<>>), <<>>),
         Variant("loose",       QueryText(looseQ, <<>>), <<>>) >>
      \o Opt(orgMilano # Null,
             Variant("loose+org:milano", lq, <<Fq("organization", orgMilano, FALSE)>>))
      \o Opt(holdMilano # Null,
             Variant("loose+holder:milano", lq, <<Fq("holder_name", holdMilano, TRUE)>>))
      \o Opt(pubMilano # Null,
             Variant("loose+publisher:milano", lq, <<Fq("publisher_name", pubMilano, TRUE)>>))
      \o Opt(orgIstat # Null,
             Variant("loose+org:istat", lq, <<Fq("organization", orgIstat, FALSE)>>))
      \o Opt(orgIstat = Null /\ holdIstat # Null,
             Variant("loose+holder:istat", lq, <<Fq("holder_name", holdIstat, TRUE)>>))
      \o Opt(orgInterno # Null,
             Variant("loose+org:interno", lq, <<Fq("organization", orgInterno, FALSE)>>))
      \o Opt(orgInterno = Null /\ holdInterno # Null,
             Variant("loose+holder:interno", lq, <<Fq("holder_name", holdInterno, TRUE)>>))
      \o Opt(hasJSON # Null,
             Variant("loose+format:json", lq, <<Fq("res_format", "JSON", FALSE)>>))
      \o Opt(hasCSV # Null,
             Variant("loose+format:csv", lq, <<Fq("res_format", "CSV", FALSE)>>))

\* ------------------------------------------------------------------------
\* Catalog datasets and their resources
\* ------------------------------------------------------------------------
Url(stem, ext) == [stem |-> stem, ext |-> ext]

\* the empty (missing) url
NoUrl == Url("", "")

Resource(format, mimetype, url) == [format |-> format, mimetype |-> mimetype, url |-> url]

ResJson   == Resource("JSON", "", Url("a", ".json"))
ResCsv    == Resource("", "text/csv", Url("b", ".csv"))
ResCsvExt == Resource("", "", Url("c", ".csv"))
ResUpper  == Resource("XLS", "", Url("d", ".CSV"))
ResPdf    == Resource("PDF", "", Url("e", ".pdf"))
ResNoUrl  == Resource("CSV", "", NoUrl)
ResGeo    == Resource("geojson", "", Url("g", ".zip"))

Dataset(title, resources) == [title |-> title, resources |-> resources]

DatasetPool ==
  { Dataset("mixed",  <<ResCsv, ResPdf, ResJson>>),
    Dataset("csv",    <<ResNoUrl, ResCsvExt>>),
    Dataset("upper",  <<ResUpper, ResGeo>>) }

\* a result list longer than the slice kept by the handler
LongResults == [i \in 1..(2 * MaxDatasets + 1) |-> Dataset("nores", <<>>)]

ResultLists == SeqsUpTo(DatasetPool, MaxResults) \cup {LongResults}

\* ---------- resource helpers ----------
\* (a || b): the first non-empty string
OrElse(a, b) == IF a # "" THEN a ELSE b

urlIncludes(url, s) == includes(toLowerCase(url.stem), s) \/ includes(toLowerCase(url.ext), s)

score(r) ==
  LET fmt == toLowerCase(OrElse(r.format, r.mimetype))
      ext == toLowerCase(r.url.ext)
  IN  IF includes(fmt, "json") \/ ext = ".json" THEN 3
      ELSE IF includes(fmt, "csv") \/ ext = ".csv" THEN 2
      ELSE 0

\* Array.prototype.sort with comparator (a, b) => b.__score - a.__score:
\* stable, descending by score
RECURSIVE SortByScoreDesc(_)
SortByScoreDesc(s) ==
  IF s = <<>> THEN <<>>
  ELSE LET init == SortByScoreDesc(SubSeq(s, 1, Len(s) - 1))
           x    == s[Len(s)]
           \* x goes after the last element whose score is >= its own
           keep == { i \in 1..Len(init) : score(init[i]) >= score(x) }
           k    == IF keep = {} THEN 0 ELSE CHOOSE i \in keep : \A j \in keep : j <= i
       IN SubSeq(init, 1, k) \o <<x>> \o SubSeq(init, k + 1, Len(init))

pickBestResources(ds) ==
  LET ok(r) == score(r) > 0 /\ r.url # NoUrl
  IN  SortByScoreDesc(SelectSeq(ds.resources, ok))

\* the format the handler asks fetchSampleData to parse; url.endsWith is
\* applied to the url as given (case-sensitive)
expectOf(r) ==
  LET declared == OrElse(r.format, r.mimetype)
      lowHas(s) == IF declared # "" THEN includes(toLowerCase(declared), s)
                   ELSE urlIncludes(r.url, s)
  IN  IF lowHas("json") \/ r.url.ext = ".json" THEN "json"
      ELSE IF lowHas("csv") \/ r.url.ext = ".csv" THEN "csv"
      ELSE Null

\* ------------------------------------------------------------------------
\* Payload text.  A line or a cell is a sequence of symbols: the three
\* candidate delimiters, the blank, and words (maximal runs of word
\* characters; two words are never adjacent in a text).
\* ------------------------------------------------------------------------
Delims == <<",", ";", "TAB">>

Blanks == {" ", "TAB"}

isWord(x) == x \notin {",", ";", "TAB", " "}

\* (headerLine.match(/d/g) || []).length
Count(line, d) == Cardinality({ i \in 1..Len(line) : line[i] = d })

\* Object.entries(counts).sort((a,b) => b[1]-a[1])[0][0]: the first of
\* comma, semicolon, tab with the highest count in the header line
delimOf(headerLine) ==
  LET best == { i \in 1..3 : \A j \in 1..3 :
                   Count(headerLine, Delims[i]) >= Count(headerLine, Delims[j]) }
  IN  Delims[CHOOSE i \in best : \A j \in best : i <= j]

\* String.prototype.split(d)
RECURSIVE split(_, _)
split(line, d) ==
  LET hits == { i \in 1..Len(line) : line[i] = d }
  IN  IF hits = {} THEN <<line>>
      ELSE LET k == CHOOSE i \in hits : \A j \in hits : i <= j
           IN  <<SubSeq(line, 1, k - 1)>> \o split(SubSeq(line, k + 1, Len(line)), d)

\* splitCSVLine detecting the delimiter on the line it splits
splitCSVLineOwn(line, headerLine) == split(line, delimOf(line))

splitCSVLine(line, headerLine) == split(line, delimOf(headerLine))

\* String.prototype.trim()
RECURSIVE trim(_)
trim(cell) ==
  IF cell = <<>> THEN <<>>
  ELSE IF cell[1] \in Blanks THEN trim(Tail(cell))
  ELSE IF cell[Len(cell)] \in Blanks THEN trim(SubSeq(cell, 1, Len(cell) - 1))
  ELSE cell

\* colName with the 0-based index
colNameZeroBased(pos) == <<"col_" \o ToString(pos - 1)>>

\* `col_${i+1}` for the 0-based index i, i.e. col_<position>
colName(pos) == <<"col_" \o ToString(pos)>>

\* obj[k] = v on an object kept as the ordered list of its entries
Put(obj, k, v) ==
  IF \E i \in 1..Len(obj) : obj[i].k = k
  THEN [i \in 1..Len(obj) |-> IF obj[i].k = k THEN [k |-> k, v |-> v] ELSE obj[i]]
  ELSE Append(obj, [k |-> k, v |-> v])

\* headers.forEach((h, i) => (obj[h || `col_${i+1}`] = (values[i] || '').trim()))
RECURSIVE zipRow(_, _, _)
zipRow(headers, values, n) ==
  IF n = 0 THEN <<>>
  ELSE LET h == headers[n]
           v == IF n <= Len(values) THEN trim(values[n]) ELSE <<>>
       IN  Put(zipRow(headers, values, n - 1), IF h # <<>> THEN h ELSE colName(n), v)

\* the CSV branch of fetchSampleData
csvSample(text) ==
  LET nonEmpty(l) == l # <<>>
      lines == Take(SelectSeq(text, nonEmpty), MaxLines)
  IN  IF Len(lines) < 2 THEN [rows |-> <<>>, note |-> "csv_too_short"]
      ELSE LET hs      == splitCSVLine(lines[1], lines[1])
               headers == [i \in 1..Len(hs) |-> trim(hs[i])]
               rows    == [j \in 1..(Len(lines) - 1) |->
                             zipRow(headers, splitCSVLine(lines[j + 1], lines[1]), Len(headers))]
           IN  [rows |-> Take(rows, MaxRows), note |-> "csv_sample"]

\* ------------------------------------------------------------------------
\* JSON documents: the top-level value and, for an object, the values under
\* the three wrapper keys.  A value is an array of rows, another truthy
\* value (an object, a string), or falsy/missing.
\* ------------------------------------------------------------------------
JArr(items) == [t |-> "arr", items |-> items]

JObj == [t |-> "obj", items |-> <<>>]

JNone == [t |-> "none", items |-> <<>>]

truthy(v) == v.t # "none"

JsonArray(items) ==
  [top |-> "array", items |-> items, data |-> JNone, records |-> JNone, result |-> JNone]

JsonObject(data, records, result) ==
  [top |-> "object", items |-> <<>>, data |-> data, records |-> records, result |-> result]

JsonNull == [top |-> "null", items |-> <<>>, data |-> JNone, records |-> JNone, result |-> JNone]

\* the JSON branch of fetchSampleData; text.kind # "json" is a text that
\* JSON.parse rejects
jsonSample(text) ==
  IF text.kind # "json" THEN [rows |-> <<>>, note |-> "json_parse_error"]
  ELSE LET json == text.json
       IN  IF json.top = "array"
           THEN [rows |-> Take(json.items, MaxRows), note |-> "json_array_sample"]
           ELSE IF json.top = "null"
           THEN [rows |-> <<>>, note |-> "json_parse_error"]
           ELSE LET arr == IF truthy(json.data) THEN json.data
                           ELSE IF truthy(json.records) THEN json.records
                           ELSE IF truthy(json.result) THEN json.result
                           ELSE JArr(<<>>)
                IN  [rows |-> IF arr.t = "arr" THEN Take(arr.items, MaxRows) ELSE <<>>,
                     note |-> "json_obj_sample"]

\* the text of a body: a JSON document (written on one line), a sequence
\* of lines, or a text that is neither
JsonText(json) == [kind |-> "json", json |-> json, lines |-> << <<"{}">> >>]

LinesText(lines) == [kind |-> "lines", json |-> JsonNull, lines |-> lines]

\* the part of fetchSampleData after the body is read: text is the decoded
\* first maxBytes bytes of the body
parseSample(expect, text) ==
  IF expect = "json" THEN jsonSample(text) ELSE csvSample(text.lines)

\* ------------------------------------------------------------------------
\* Rows and the row filter of the handler
\* ------------------------------------------------------------------------
Cell(k, v) == [k |-> k, v |-> v]

\* the word runs of JSON.stringify(row), in order
RECURSIVE runsOf(_)
runsOf(row) ==
  IF row = <<>> THEN <<>>
  ELSE SelectSeq(row[1].k, isWord) \o SelectSeq(row[1].v, isWord) \o runsOf(Tail(row))

\* parseInt of a run matching /\b(20\d{2}|19\d{2})\b/, 0 for any other run
yearOf(w) ==
  CASE w = "1999" -> 1999
    [] w = "2015" -> 2015
    [] w = "2021" -> 2021
    [] w = "2022" -> 2022
    [] w = "2023" -> 2023
    [] w = "2024" -> 2024
    [] OTHER -> 0

rowPasses(row, city, years) ==
  LET s      == runsOf(row)
      cityOk == IF city # Null
                THEN \E i \in 1..Len(s) : includes(toLowerCase(s[i]), toLowerCase(city))
                ELSE TRUE
      ys     == { i \in 1..Len(s) : yearOf(s[i]) # 0 }
      yOk    == IF ys # {}
                THEN yearOf(s[CHOOSE i \in ys : \A j \in ys : i <= j]) >= years.startYear
                ELSE TRUE
  IN  cityOk /\ yOk

\* realData = (filtered.length ? filtered : sample.rows).slice(0, 20)
keptRows(rows, city, years) ==
  LET pass(row) == rowPasses(row, city, years)
      filtered  == SelectSeq(rows, pass)
  IN  Take(IF filtered # <<>> THEN filtered ELSE rows, MaxRows)

\* ------------------------------------------------------------------------
\* intelligentQuery.ts (src/unnamed/part_004): entity extraction and the
\* CKAN query plan
\* ------------------------------------------------------------------------
\* TOPIC_ONTOLOGY, as the list of its entries
TOPIC_ONTOLOGY ==
  << [canon |-> "reati",
      syns  |-> <<"reati", "delitti", "criminalit&agrave;", "crimini", "reati denunciati">>] >>

\* parseInt of a word made of digits, -1 for any other word
numOf(w) ==
  CASE w = "0" -> 0
    [] w = "1" -> 1
    [] w = "3" -> 3
    [] w = "5" -> 5
    [] OTHER -> -1

\* for (let y = start; y <= endYear; y++) arr.push(y)
computeLastNYears(n, endYear) ==
  LET start == endYear - (n - 1)
  IN  [i \in 1..(IF endYear >= start THEN endYear - start + 1 ELSE 0) |-> start + i - 1]

\* q.match(/ultim[oi]?\s+(\d+)\s+anni/): the number of the first match
lastNOf(q) ==
  LET hits == { i \in 1..(Len(q) - 2) :
                  /\ q[i] \in {"ultimi", "ultimo", "ultim", "penultimi"}
                  /\ numOf(q[i + 1]) >= 0
                  /\ q[i + 2] = "anni" }
  IN  IF hits = {} THEN Null
      ELSE q[(CHOOSE i \in hits : \A j \in hits : i <= j) + 1]

\* localHeuristics that detects nothing
localHeuristicsBlind(question) ==
  [city |-> "", years |-> <<>>, topic |-> [canonical |-> "generico", synonyms |-> <<>>]]

localHeuristics(question) ==
  LET q == [i \in 1..Len(question) |-> toLowerCase(question[i])]
      isYear(w) == yearOf(w) # 0
      yearWords == SelectSeq(q, isYear)
      explicitYears == [i \in 1..Len(yearWords) |-> yearOf(yearWords[i])]
      m     == lastNOf(q)
      lastN == IF m # Null THEN numOf(m) ELSE 0
      years == IF Len(explicitYears) > 0 THEN explicitYears
               ELSE IF lastN # 0 THEN computeLastNYears(lastN, CurrentYear)
               ELSE <<>>
      known == { e \in 1..Len(TOPIC_ONTOLOGY) :
                   \E k \in 1..Len(TOPIC_ONTOLOGY[e].syns) : \E i \in 1..Len(q) :
                      includes(q[i], TOPIC_ONTOLOGY[e].syns[k]) }
      first == CHOOSE e \in known : \A f \in known : e <= f
  IN  [ city  |-> IF \E i \in 1..Len(q) : q[i] = "milano" THEN "Milano" ELSE "",
        years |-> years,
        topic |-> IF known = {}
                  THEN [canonical |-> "generico", synonyms |-> <<>>]
                  ELSE [canonical |-> TOPIC_ONTOLOGY[first].canon,
                        synonyms  |-> TOPIC_ONTOLOGY[first].syns] ]

\* String.prototype.trim() on the vocabulary
trimStr(w) ==
  CASE w = " reati " -> "reati"
    [] OTHER -> w

\* a topic as the extraction service returns it; synonyms missing is
\* hasSyn = FALSE
normalizeTopic(topic) ==
  LET rawCanon == trimStr(toLowerCase(topic.canonical))
      byCanon  == { e \in 1..Len(TOPIC_ONTOLOGY) :
                      \/ TOPIC_ONTOLOGY[e].canon = rawCanon
                      \/ rawCanon \in SeqToSet(TOPIC_ONTOLOGY[e].syns) }
      bySyn    == { e \in 1..Len(TOPIC_ONTOLOGY) :
                      \E i \in 1..Len(topic.synonyms) :
                         toLowerCase(topic.synonyms[i]) \in SeqToSet(TOPIC_ONTOLOGY[e].syns) }
      firstOf(S) == CHOOSE e \in S : \A f \in S : e <= f
      entry(e) == [canonical |-> TOPIC_ONTOLOGY[e].canon, synonyms |-> TOPIC_ONTOLOGY[e].syns]
  IN  IF byCanon # {} THEN entry(firstOf(byCanon))
      ELSE IF bySyn # {} THEN entry(firstOf(bySyn))
      ELSE [ canonical |-> IF rawCanon # "" THEN rawCanon ELSE "generico",
             synonyms  |-> IF topic.hasSyn THEN topic.synonyms
                           ELSE IF rawCanon # "" THEN <<rawCanon>> ELSE <<>> ]

\* buildCKANUrl of intelligentQuery.ts: rows defaults to 12, no sort
planCKANUrl(q, rows, fq) == [q |-> q, rows |-> rows, fq |-> fq]

\* variants.sort((a, b) => a.priority - b.priority): stable, ascending
RECURSIVE sortByPriority(_)
sortByPriority(s) ==
  IF s = <<>> THEN <<>>
  ELSE LET init == sortByPriority(SubSeq(s, 1, Len(s) - 1))
           x    == s[Len(s)]
           keep == { i \in 1..Len(init) : init[i].priority <= x.priority }
           k    == IF keep = {} THEN 0 ELSE CHOOSE i \in keep : \A j \in keep : j <= i
       IN SubSeq(init, 1, k) \o <<x>> \o SubSeq(init, k + 1, Len(init))

\* PlanText without the geography bit
PlanTextNoGeo(syn, city, years) ==
  [ terms |-> [i \in 1..Len(syn) |-> Term(syn[i], TRUE)],
    geo   |-> <<>>,
    years |-> years ]

\* the query text of the plan: the quoted synonyms joined by OR, the
\* quoted city, the years joined by OR
PlanText(syn, city, years) ==
  [ terms |-> [i \in 1..Len(syn) |-> Term(syn[i], TRUE)],
    geo   |-> IF city # "" THEN <<Term(city, TRUE)>> ELSE <<>>,
    years |-> years ]

buildCKANPlan(n) ==
  LET syn == IF Len(n.topic.synonyms) > 0 THEN n.topic.synonyms ELSE <<n.topic.canonical>>
      q   == PlanText(syn, n.geo.city, n.years)
      fqMilanoHolder == IF n.geo.city = "Milano"
                        THEN <<Fq("holder_name", "COMUNE DI MILANO", TRUE)>> ELSE <<>>
      fqOrgMilano    == IF n.geo.city = "Milano"
                        THEN <<Fq("organization", "comune-di-milano", FALSE)>> ELSE <<>>
      fqNational     == <<Fq("holder_name", "ISTAT", TRUE),
                          Fq("holder_name", "Ministero dell'Interno", TRUE)>>
      variants ==
        << [label |-> "Comune di Milano (holder)", url |-> planCKANUrl(q, 12, fqMilanoHolder),
            priority |-> 1],
           [label |-> "Comune di Milano (organization)", url |-> planCKANUrl(q, 12, fqOrgMilano),
            priority |-> 2],
           [label |-> "Nazionale (ISTAT/Interno)", url |-> planCKANUrl(q, 12, fqNational),
            priority |-> 3],
           [label |-> "Solo testo", url |-> planCKANUrl(q, 12, <<>>),
            priority |-> 4] >>
  IN  [ baseQuery |-> PlanText(syn, n.geo.city, <<>>),
        filters   |-> fqMilanoHolder \o fqOrgMilano \o fqNational,
        variants  |-> sortByPriority(variants) ]

\* sortAsc that leaves the order as it is
sortAscNoOp(s) == s

\* years.filter((v, i, a) => a.indexOf(v) === i).sort((a, b) => a - b)
RECURSIVE sortAsc(_)
sortAsc(s) ==
  IF s = <<>> THEN <<>>
  ELSE LET init == sortAsc(SubSeq(s, 1, Len(s) - 1))
           x    == s[Len(s)]
           keep == { i \in 1..Len(init) : init[i] <= x }
           k    == IF keep = {} THEN 0 ELSE CHOOSE i \in keep : \A j \in keep : j <= i
       IN SubSeq(init, 1, k) \o <<x>> \o SubSeq(init, k + 1, Len(init))

\* the merge of intelligentQueryPlan; llm.ok = FALSE is llmExtract
\* returning null
mergeQuery(question, llm) ==
  LET local == localHeuristics(question)
      geo == [ city     |-> IF llm.ok /\ llm.city # "" THEN llm.city ELSE local.city,
               province |-> "",
               region   |-> "",
               nation   |-> "Italia" ]
      years == sortAsc(Dedup(IF llm.ok /\ Len(llm.years) > 0 THEN llm.years ELSE local.years))
      topicNorm == normalizeTopic(IF llm.ok /\ llm.hasTopic
                                  THEN llm.topic
                                  ELSE [canonical |-> local.topic.canonical,
                                        synonyms  |-> local.topic.synonyms,
                                        hasSyn    |-> TRUE])
  IN  [original |-> question, geo |-> geo, years |-> years, topic |-> topicNorm]

\* what llmExtract returns: null (network error, non-success status, reply
\* that is not JSON) or the parsed reply
LlmTopic(canonical, synonyms, hasSyn) ==
  [canonical |-> canonical, synonyms |-> synonyms, hasSyn |-> hasSyn]

NoTopic == LlmTopic("", <<>>, FALSE)

LlmNull ==
  [ok |-> FALSE, why |-> "none", city |-> "", years |-> <<>>, hasTopic |-> FALSE,
   topic |-> NoTopic]

LlmReplies ==
  \* the three ways llmExtract comes to return null: the fetch rejects
  \* (catch), if (!resp.ok) return null, JSON.parse(content) throws
  { [LlmNull EXCEPT !.why = why] : why \in {"network", "status", "notJson"} }
  \cup { [ok |-> TRUE, why |-> "none", city |-> c, years |-> ys, hasTopic |-> TRUE,
          topic |-> t] :
           c  \in {"", "Milano", "Roma"},
           ys \in {<<>>, <<2023, 2021, 2023>>, <<12, 2022>>},
           t  \in { LlmTopic("", <<>>, TRUE), LlmTopic("Delitti", <<>>, FALSE),
                    LlmTopic("sicurezza", <<"Reati">>, TRUE),
                    LlmTopic("popolazione", <<"residenti", "abitanti">>, TRUE) } }
  \cup { [ok |-> TRUE, why |-> "none", city |-> "", years |-> <<>>, hasTopic |-> FALSE,
          topic |-> NoTopic] }

VARIABLES
  ppc,          \* position of intelligentQueryPlan
  pquestion,    \* its argument
  llm,          \* the result of llmExtract
  normalized,   \* the NormalizedQuery
  ckan          \* the CKANQueryPlan

pvars == <<ppc, pquestion, llm, normalized, ckan>>

NoNormalized ==
  [ original |-> <<>>,
    geo      |-> [city |-> "", province |-> "", region |-> "", nation |-> ""],
    years    |-> <<>>,
    topic    |-> [canonical |-> "", synonyms |-> <<>>] ]

NoPlan == [baseQuery |-> PlanText(<<>>, "", <<>>), filters |-> <<>>, variants |-> <<>>]

\* intelligentQueryPlan is not running
PlanIdle ==
  /\ ppc = "off"
  /\ pquestion = <<>>
  /\ llm = LlmNull
  /\ normalized = NoNormalized
  /\ ckan = NoPlan

\* ------------------------------------------------------------------------
\* fetchSampleData and the row filter applied to one payload
\* ------------------------------------------------------------------------
VARIABLES
  spc,          \* position: start, parsed, done
  stext,        \* the decoded first maxBytes bytes of the body
  sexpect,      \* the argument expect of fetchSampleData
  scity,        \* city of extractKeywords
  ssample,      \* the result of fetchSampleData
  skept         \* realData after the row filter

svars == <<spc, stext, sexpect, scity, ssample, skept>>

NoSample == [rows |-> <<>>, note |-> "none"]

\* the sampler is not running
SampleIdle ==
  /\ spc = "off"
  /\ stext = [kind |-> "none"]
  /\ sexpect = Null
  /\ scity = Null
  /\ ssample = NoSample
  /\ skept = <<>>

\* ------------------------------------------------------------------------
\* Two runs of the search executor over the same stubbed responses
\* ------------------------------------------------------------------------
VARIABLES
  stub,         \* the stubbed catalog response of every variant, by position
  runs          \* the local state of each of the two runs

dvars == <<stub, runs>>

\* the length of the variant list given to both runs
NumVariants == 3

\* no run of the executor is under way
DetIdle ==
  /\ stub = <<>>
  /\ runs = [r \in 1..2 |-> [pc |-> "idle", vi |-> 0, results |-> <<>>, attempts |-> 0,
                             selected |-> <<>>]]

\* ------------------------------------------------------------------------
\* The dataset-search cache handler under concurrent requests
\* ------------------------------------------------------------------------
VARIABLES
  cacheRows,    \* the rows of datasets_cache, in insertion order
  uniqueTerm,   \* whether the table rejects a second row for a search_term
  clients       \* each concurrent request: position, body, what it read

cvars == <<cacheRows, uniqueTerm, clients>>

\* the number of concurrent requests
NumClients == 3

IdleClient == [pc |-> "off", query |-> Null, cached |-> 0, hit_count |-> 0, seen |-> 0,
               resp |-> "none"]

\* no request to the cache handler is under way
CacheIdle ==
  /\ cacheRows = <<>>
  /\ uniqueTerm = FALSE
  /\ clients = [c \in 1..NumClients |-> IdleClient]

\* ------------------------------------------------------------------------
\* Inputs of one invocation: the request body and the responses of the
\* collaborators (catalog, resource hosts, database, answer synthesis)
\* ------------------------------------------------------------------------
RowMi22 == <<Cell(<<"city">>, <<"Milano">>), Cell(<<"year">>, <<"2022">>)>>

RowRm22 == <<Cell(<<"city">>, <<"Roma">>), Cell(<<"year">>, <<"2022">>)>>

RowMi15 == <<Cell(<<"city">>, <<"MILANO">>), Cell(<<"year">>, <<"2015">>)>>

RowRm15 == <<Cell(<<"city">>, <<"Roma">>), Cell(<<"year">>, <<"2015">>)>>

\* more rows than a sample keeps, all of Milano
LongRows ==
  [i \in 1..(MaxRows + 2) |->
     <<Cell(<<"city">>, <<"Milano">>), Cell(<<"year">>, <<"2022">>),
       Cell(<<"n">>, <<ToString(i)>>)>>]

Bodies ==
  { JsonText(JsonArray(<<RowMi22, RowRm22>>)),
    JsonText(JsonArray(LongRows)),
    JsonText(JsonObject(JNone, JArr(<<RowRm22, RowMi15>>), JNone)),
    JsonText(JsonObject(JObj, JArr(<<RowMi22>>), JNone)),
    LinesText(<< <<"comune", ";", "anno">>, <<>>, <<"Milano", ";", " ", "2023">>,
                 <<"Roma", ";", "2023">> >>),
    LinesText(<< <<"comune", ",", "anno">> >>) }

Requests ==
  { [kind |-> "ok", question |-> q] : q \in HandlerQuestions }
  \cup { [kind |-> "badjson", question |-> <<>>],
         [kind |-> "noquestion", question |-> <<>>] }

\* what discoverFacets gets from the catalog
FacetResponses ==
  { [kind |-> "reject", f |-> NoFacets], [kind |-> "notOk", f |-> NoFacets] }
  \cup { [kind |-> "ok", f |-> f] : f \in FacetSets }

\* what a variant's search request gets: the fetch rejects, a non-success
\* status, a body that is not JSON, or a JSON body with result.count and
\* result.results (missing fields read as 0 and [])
SearchResponses ==
  { [kind |-> k, count |-> 0, results |-> <<>>] : k \in {"reject", "notOk", "badJson"} }
  \cup { [kind |-> "ok", count |-> c, results |-> rs] :
           c \in {0, 60}, rs \in ResultLists }

\* what the HEAD request gets: the fetch rejects, or a status and a
\* Content-Length header (missing or unparsable reads as 0)
HeadResponses ==
  { [kind |-> "reject", ok |-> FALSE, len |-> 0] }
  \cup { [kind |-> "resp", ok |-> ok, len |-> n] :
           ok \in BOOLEAN, n \in {0, MaxBytes, MaxBytes + 1} }

\* what the GET request gets: the fetch rejects, a non-success status, a
\* body whose read rejects, or a body (given by its first maxBytes bytes)
BodyResponses ==
  { [kind |-> k, text |-> LinesText(<<>>)] : k \in {"reject", "notOk", "readFail"} }
  \cup { [kind |-> "ok", text |-> b] : b \in Bodies }

OpenAIResponses == {"reject", "notOk", "malformed", "json", "text"}

\* ------------------------------------------------------------------------
\* The POST handler
\* ------------------------------------------------------------------------
VARIABLES
  pc,           \* position of the handler
  request,      \* the request body
  query,        \* TRUE once the query record is inserted (query # null)
  dbWrites,     \* the status values written to the query record, in order
  kw,           \* the result of extractKeywords
  facets,       \* the result of discoverFacets
  variants,     \* the result of buildVariants
  vi,           \* index of the variant the loop is at
  results,      \* the local variable results of the search block
  reqLog,       \* the catalog requests issued, in order
  lastSearch,   \* index and outcome of the most recent variant request
  sawDatasets,  \* some variant response carried a non-empty result list
  exitAt,       \* index of the variant at which the loop broke, 0 if none
  realDatasets, \* the datasets selected for sampling
  realData,     \* the rows kept
  work,         \* the (dataset, resource) pairs the sampling loops visit
  wi,           \* index of the pair the loops are at
  probed,       \* indices of work that received a HEAD request
  bigAt,        \* indices whose probe declared more than maxBytes
  okBigAt,      \* those of bigAt whose probe had a success status
  fetched,      \* indices of work that received a GET request
  failedAt,     \* indices whose GET or body read rejected
  sampled,      \* the rows of the sample that was accepted
  sampleEnd,    \* how the sampling loops ended: exhausted, accepted, aborted
  openaiCalls,  \* number of calls to the answer synthesis service
  response,     \* the HTTP response of the handler
  callLog       \* every search, HEAD and GET request: its kind and the index
                \* of the variant or candidate it was made for

hvars == <<pc, request, query, dbWrites, kw, facets, variants, vi, results,
          reqLog, lastSearch, sawDatasets, exitAt, realDatasets, realData,
          work, wi, probed, bigAt, okBigAt, fetched, failedAt, sampled,
          sampleEnd, openaiCalls, response, callLog>>

vars == <<hvars, pvars, svars, dvars, cvars>>

NoSearch == [vi |-> 0, outcome |-> "none", count |-> 0, n |-> 0]

NoKw == [city |-> Null, topics |-> <<>>, years |-> [startYear |-> 0, endYear |-> 0]]

NoHead == [ok |-> FALSE, contentLength |-> 0]

NoResponse == [status |-> 0, hasRealData |-> FALSE, data |-> <<>>, realDatasets |-> <<>>]

Init ==
  /\ pc = "start"
  /\ request \in Requests
  /\ query = FALSE
  /\ dbWrites = <<>>
  /\ kw = NoKw
  /\ facets = [ok |-> FALSE, f |-> NoFacets]
  /\ variants = <<>>
  /\ vi = 0
  /\ results = <<>>
  /\ reqLog = <<>>
  /\ lastSearch = NoSearch
  /\ sawDatasets = FALSE
  /\ exitAt = 0
  /\ realDatasets = <<>>
  /\ realData = <<>>
  /\ work = <<>>
  /\ wi = 0
  /\ probed = {}
  /\ bigAt = {}
  /\ okBigAt = {}
  /\ fetched = {}
  /\ failedAt = {}
  /\ sampled = <<>>
  /\ sampleEnd = "none"
  /\ openaiCalls = 0
  /\ response = NoResponse
  /\ callLog = <<>>
  /\ PlanIdle
  /\ SampleIdle
  /\ DetIdle
  /\ CacheIdle

\* realDatasets.map(ds => ({ title, source, resources: ds.resources?.length || 0 }))
summaries(dss) ==
  [i \in 1..Len(dss) |-> [title |-> dss[i].title, resources |-> Len(dss[i].resources)]]

\* Failed that leaves the record as it is
FailedSilently(q) ==
  /\ dbWrites' = dbWrites
  /\ response' = [status |-> 500, hasRealData |-> FALSE, data |-> <<>>, realDatasets |-> <<>>]
  /\ pc' = "done"

\* the catch block of the handler: the record, if inserted, is marked
\* failed and the response has status 500
Failed(q) ==
  /\ dbWrites' = IF q THEN Append(dbWrites, "failed") ELSE dbWrites
  /\ response' = [status |-> 500, hasRealData |-> FALSE, data |-> <<>>, realDatasets |-> <<>>]
  /\ pc' = "done"

\* const { question, userId = null } = await request.json()
ParseRequest ==
  /\ pc = "start"
  /\ IF request.kind = "badjson"
     THEN Failed(query)
     ELSE /\ pc' = "insert"
          /\ UNCHANGED <<dbWrites, response>>
  /\ UNCHANGED <<request, query, kw, facets, variants, vi, results, reqLog,
                 lastSearch, sawDatasets, exitAt, realDatasets, realData, work,
                 wi, probed, bigAt, okBigAt, fetched, openaiCalls>>
  /\ UNCHANGED sampleEnd
  /\ UNCHANGED <<failedAt, sampled, callLog>>
  /\ UNCHANGED <<pvars, svars, dvars, cvars>>

\* 1) insert of the query record, 2) extractKeywords
InsertQuery ==
  /\ pc = "insert"
  /\ \E error \in BOOLEAN :
       IF error
       THEN /\ Failed(FALSE)
            /\ UNCHANGED <<query, kw>>
       ELSE /\ query' = TRUE
            /\ IF request.kind = "noquestion"
               THEN \* question.toLowerCase() throws on undefined
                    /\ dbWrites' = <<"processing", "failed">>
                    /\ response' = [status |-> 500, hasRealData |-> FALSE,
                                    data |-> <<>>, realDatasets |-> <<>>]
                    /\ pc' = "done"
                    /\ UNCHANGED kw
               ELSE /\ dbWrites' = <<"processing">>
                    /\ kw' = extractKeywords(request.question)
                    /\ pc' = "discover"
                    /\ UNCHANGED response
  /\ UNCHANGED <<request, facets, variants, vi, results, reqLog, lastSearch,
                 sawDatasets, exitAt, realDatasets, realData, work, wi, probed, bigAt, okBigAt, fetched, openaiCalls>>
  /\ UNCHANGED sampleEnd
  /\ UNCHANGED <<failedAt, sampled, callLog>>
  /\ UNCHANGED <<pvars, svars, dvars, cvars>>

\* 3) discoverFacets and buildVariants
Discover ==
  /\ pc = "discover"
  /\ \E resp \in FacetResponses :
       /\ facets' = [ok |-> resp.kind = "ok", f |-> resp.f]
       /\ variants' = buildVariants(kw.topics, kw.city, facets')
  /\ reqLog' = Append(reqLog, FacetUrl(kw.topics, kw.city))
  /\ vi' = 1
  /\ results' = <<>>
  /\ pc' = "search"
  /\ UNCHANGED <<request, query, dbWrites, kw, lastSearch, sawDatasets, exitAt,
                 realDatasets, realData, work, wi, probed, bigAt, okBigAt, fetched,
                 openaiCalls, response>>
  /\ UNCHANGED sampleEnd
  /\ UNCHANGED <<failedAt, sampled, callLog>>
  /\ UNCHANGED <<pvars, svars, dvars, cvars>>

\* earlyExit with the length test off by one
earlyExitOffByOne(count, rs) == count > 0 /\ Len(rs) > 1

\* if (count > 0 && results.length > 0) break
earlyExit(count, rs) == count > 0 /\ Len(rs) > 0

\* the (dataset, resource) pairs visited by the two sampling loops, in
\* order: for each dataset its pickBestResources, without the resources
\* for which expect is null (continue)
RECURSIVE workFrom(_, _)
workFrom(dss, di) ==
  IF di > Len(dss) THEN <<>>
  ELSE LET cands == pickBestResources(dss[di])
           items == [i \in 1..Len(cands) |->
                       [di |-> di, r |-> cands[i], expect |-> expectOf(cands[i])]]
           hasExpect(it) == it.expect # Null
       IN  SelectSeq(items, hasExpect) \o workFrom(dss, di + 1)

workList(dss) == workFrom(dss, 1)

\* the end of the variant loop: if (results.length > 0) the first
\* datasets are selected and the sampling loops start
AfterLoop(rs) ==
  IF Len(rs) > 0
  THEN /\ realDatasets' = Take(rs, MaxDatasets)
       /\ work' = workList(realDatasets')
       /\ IF work' # <<>>
          THEN pc' = "probe" /\ wi' = 1 /\ sampleEnd' = "running"
          ELSE pc' = "respond" /\ wi' = wi /\ sampleEnd' = "exhausted"
  ELSE /\ pc' = "respond"
       /\ UNCHANGED <<realDatasets, work, wi, sampleEnd>>

\* searchStep with a non-success status thrown instead of skipped
searchStepThrowNotOk(resp) ==
  IF resp.kind \in {"reject", "badJson", "notOk"} THEN "throw"
  ELSE IF earlyExit(resp.count, resp.results) THEN "break"
  ELSE "continue"

\* the control flow of one iteration of the variant loop: the fetch or
\* dsResp.json() throws, if (!dsResp.ok) continue, break on early exit
searchStep(resp) ==
  IF resp.kind \in {"reject", "badJson"} THEN "throw"
  ELSE IF resp.kind = "notOk" THEN "continue"
  ELSE IF earlyExit(resp.count, resp.results) THEN "break"
  ELSE "continue"

\* afterSkip that stays on the same variant
afterSkipRetry(k) == k

\* continue: the loop goes on with the next variant of the list
afterSkip(k) == k + 1

\* 4) one iteration of for (const v of variants)
SearchVariant ==
  /\ pc = "search"
  /\ reqLog' = Append(reqLog, variants[vi].url)
  /\ callLog' = Append(callLog, [op |-> "search", at |-> vi])
  /\ \E resp \in SearchResponses :
       /\ lastSearch' = [vi |-> vi, outcome |-> resp.kind,
                         count |-> resp.count, n |-> Len(resp.results)]
       /\ sawDatasets' = (sawDatasets \/ (resp.kind = "ok" /\ resp.results # <<>>))
       /\ results' = IF resp.kind = "ok" THEN resp.results ELSE results
       /\ exitAt' = IF searchStep(resp) = "break" THEN vi ELSE exitAt
       /\ CASE searchStep(resp) = "throw" ->
                 \* the exception leaves the try block of the search
                 /\ pc' = "respond"
                 /\ UNCHANGED <<vi, realDatasets, work, wi, sampleEnd>>
            [] searchStep(resp) = "continue" /\ vi < Len(variants) ->
                 /\ vi' = afterSkip(vi)
                 /\ pc' = "search"
                 /\ UNCHANGED <<realDatasets, work, wi, sampleEnd>>
            [] OTHER ->
                 \* break, or the end of the list
                 /\ vi' = vi
                 /\ AfterLoop(results')
  /\ UNCHANGED <<request, query, dbWrites, kw, facets, variants, realData,
                 probed, bigAt, okBigAt, fetched, openaiCalls, response>>
  /\ UNCHANGED <<failedAt, sampled>>
  /\ UNCHANGED <<pvars, svars, dvars, cvars>>

\* tooLarge with a ceiling ten times too high
tooLargeWrongCeiling(h) == h.ok /\ h.contentLength # 0 /\ h.contentLength > 10 * MaxBytes

\* if (h.ok && h.contentLength && h.contentLength > maxBytes)
tooLarge(h) == h.ok /\ h.contentLength # 0 /\ h.contentLength > MaxBytes

\* headInfo: a rejected fetch reads as { ok: false, contentLength: 0 }
headInfo(resp) ==
  IF resp.kind = "reject" THEN NoHead
  ELSE [ok |-> resp.ok, contentLength |-> resp.len]

\* NextCandidate ending the sampling loops at the first resource without rows
NextCandidateStop == pc' = "respond" /\ wi' = wi /\ sampleEnd' = "exhausted"

\* the resource gave no rows: next resource, next dataset, or the end of
\* the sampling loops
NextCandidate ==
  IF wi < Len(work)
  THEN pc' = "probe" /\ wi' = wi + 1 /\ sampleEnd' = sampleEnd
  ELSE pc' = "respond" /\ wi' = wi /\ sampleEnd' = "exhausted"

\* 5) fetchSampleData, first part: const h = await headInfo(url)
Probe ==
  /\ pc = "probe"
  /\ probed' = probed \cup {wi}
  /\ callLog' = Append(callLog, [op |-> "head", at |-> wi])
  /\ \E resp \in HeadResponses :
       LET h == headInfo(resp)
       IN  /\ bigAt' = IF resp.len > MaxBytes THEN bigAt \cup {wi} ELSE bigAt
           /\ okBigAt' = IF resp.ok /\ resp.len > MaxBytes
                         THEN okBigAt \cup {wi} ELSE okBigAt
           /\ IF tooLarge(h)
              THEN \* return { rows: [], note: 'skipped_large_file' }
                   NextCandidate
              ELSE pc' = "get" /\ wi' = wi /\ sampleEnd' = sampleEnd
  /\ UNCHANGED <<request, query, dbWrites, kw, facets, variants, vi, results,
                 reqLog, lastSearch, sawDatasets, exitAt, realDatasets, realData,
                 work, fetched, openaiCalls, response>>
  /\ UNCHANGED <<failedAt, sampled>>
  /\ UNCHANGED <<pvars, svars, dvars, cvars>>

\* 5) fetchSampleData, second part: the GET, the parse and the row filter
FetchBody ==
  /\ pc = "get"
  /\ fetched' = fetched \cup {wi}
  /\ callLog' = Append(callLog, [op |-> "get", at |-> wi])
  /\ \E resp \in BodyResponses :
       CASE resp.kind \in {"reject", "readFail"} ->
              \* the exception leaves the try block of the search
              /\ pc' = "respond"
              /\ sampleEnd' = "aborted"
              /\ failedAt' = failedAt \cup {wi}
              /\ UNCHANGED <<wi, realData, sampled>>
         [] resp.kind = "notOk" ->
              /\ NextCandidate
              /\ UNCHANGED <<realData, failedAt, sampled>>
         [] resp.kind = "ok" ->
              LET sample == parseSample(work[wi].expect, resp.text)
              IN  IF Len(sample.rows) > 0
                  THEN /\ realData' = keptRows(sample.rows, kw.city, kw.years)
                       /\ sampled' = sample.rows
                       /\ pc' = "respond"
                       /\ wi' = wi
                       /\ sampleEnd' = "accepted"
                       /\ UNCHANGED failedAt
                  ELSE /\ NextCandidate
                       /\ UNCHANGED <<realData, failedAt, sampled>>
  /\ UNCHANGED <<request, query, dbWrites, kw, facets, variants, vi, results,
                 reqLog, lastSearch, sawDatasets, exitAt, realDatasets, work,
                 probed, bigAt, okBigAt, openaiCalls, response>>
  /\ UNCHANGED <<pvars, svars, dvars, cvars>>

\* noDataResponse with emptiness reported as a failure
noDataAsError(dss) ==
  [status |-> 500, hasRealData |-> FALSE, data |-> <<>>, realDatasets |-> summaries(dss)]

\* responsePayload of the no-data branch, returned with status 200
noDataResponse(dss) ==
  [status |-> 200, hasRealData |-> FALSE, data |-> <<>>, realDatasets |-> summaries(dss)]

\* noRealData that never holds
noRealDataNever(rows) == FALSE

\* if (realData.length === 0)
noRealData(rows) == Len(rows) = 0

\* 6) if (realData.length === 0): the fixed no-data answer
RespondNoData ==
  /\ pc = "respond"
  /\ noRealData(realData)
  /\ dbWrites' = Append(dbWrites, "completed")
  /\ response' = noDataResponse(realDatasets)
  /\ pc' = "done"
  /\ UNCHANGED <<request, query, kw, facets, variants, vi, results, reqLog,
                 lastSearch, sawDatasets, exitAt, realDatasets, realData, work,
                 wi, probed, bigAt, okBigAt, fetched, openaiCalls>>
  /\ UNCHANGED sampleEnd
  /\ UNCHANGED <<failedAt, sampled, callLog>>
  /\ UNCHANGED <<pvars, svars, dvars, cvars>>

\* 7) the answer synthesis call and the final response
Synthesize ==
  /\ pc = "respond"
  /\ ~noRealData(realData)
  /\ openaiCalls' = openaiCalls + 1
  /\ \E resp \in OpenAIResponses :
       IF resp \in {"reject", "notOk", "malformed"}
       THEN Failed(query)
       ELSE /\ dbWrites' = Append(dbWrites, "completed")
            /\ response' = [status |-> 200, hasRealData |-> TRUE,
                            data |-> IF resp = "json" THEN <<"stat">> ELSE <<>>,
                            realDatasets |-> summaries(realDatasets)]
            /\ pc' = "done"
  /\ UNCHANGED <<request, query, kw, facets, variants, vi, results, reqLog,
                 lastSearch, sawDatasets, exitAt, realDatasets, realData, work,
                 wi, probed, bigAt, okBigAt, fetched>>
  /\ UNCHANGED sampleEnd
  /\ UNCHANGED <<failedAt, sampled, callLog>>
  /\ UNCHANGED <<pvars, svars, dvars, cvars>>

Next ==
  \/ ParseRequest
  \/ InsertQuery
  \/ Discover
  \/ SearchVariant
  \/ Probe
  \/ FetchBody
  \/ RespondNoData
  \/ Synthesize

Spec == Init /\ [][Next]_vars

\* ------------------------------------------------------------------------
\* intelligentQueryPlan applied to every question and every reply of the
\* extraction service
\* ------------------------------------------------------------------------
\* the handler is not running
HandlerIdle ==
  /\ pc = "off"
  /\ request = [kind |-> "none", question |-> <<>>]
  /\ query = FALSE
  /\ dbWrites = <<>>
  /\ kw = NoKw
  /\ facets = [ok |-> FALSE, f |-> NoFacets]
  /\ variants = <<>>
  /\ vi = 0
  /\ results = <<>>
  /\ reqLog = <<>>
  /\ lastSearch = NoSearch
  /\ sawDatasets = FALSE
  /\ exitAt = 0
  /\ realDatasets = <<>>
  /\ realData = <<>>
  /\ work = <<>>
  /\ wi = 0
  /\ probed = {}
  /\ bigAt = {}
  /\ okBigAt = {}
  /\ fetched = {}
  /\ failedAt = {}
  /\ sampled = <<>>
  /\ sampleEnd = "none"
  /\ openaiCalls = 0
  /\ response = NoResponse
  /\ callLog = <<>>

InitPlan ==
  /\ HandlerIdle
  /\ SampleIdle
  /\ DetIdle
  /\ CacheIdle
  /\ ppc = "start"
  /\ pquestion \in Questions
  /\ llm = LlmNull
  /\ normalized = NoNormalized
  /\ ckan = NoPlan

\* a) const llm = await llmExtract(question)
LlmExtract ==
  /\ ppc = "start"
  /\ llm' \in LlmReplies
  /\ ppc' = "merge"
  /\ UNCHANGED <<pquestion, normalized, ckan>>
  /\ UNCHANGED <<hvars, svars, dvars, cvars>>

\* b), c) localHeuristics and the merge
Merge ==
  /\ ppc = "merge"
  /\ normalized' = mergeQuery(pquestion, llm)
  /\ ppc' = "plan"
  /\ UNCHANGED <<pquestion, llm, ckan>>
  /\ UNCHANGED <<hvars, svars, dvars, cvars>>

\* d) const ckan = buildCKANPlan(normalized)
Plan ==
  /\ ppc = "plan"
  /\ ckan' = buildCKANPlan(normalized)
  /\ ppc' = "done"
  /\ UNCHANGED <<pquestion, llm, normalized>>
  /\ UNCHANGED <<hvars, svars, dvars, cvars>>

NextPlan ==
  \/ LlmExtract
  \/ Merge
  \/ Plan

SpecPlan == InitPlan /\ [][NextPlan]_vars

\* ------------------------------------------------------------------------
\* fetchSampleData (after the body is read) and the row filter applied to
\* every payload of SampleTexts
\* ------------------------------------------------------------------------
RowLists ==
  { <<>>, <<RowMi22, RowRm22>>, <<RowMi22, RowMi15>>, <<RowRm15>>,
    <<RowRm22, RowMi15>>, LongRows }

\* the values a wrapper key can hold
WrapperValues == {JNone, JObj, JArr(<<>>), JArr(<<RowMi22, RowRm22>>), JArr(LongRows)}

JsonBodies ==
  { JsonText(JsonArray(rows)) : rows \in RowLists }
  \cup { JsonText(JsonObject(d, r, x)) : d \in WrapperValues, r \in WrapperValues,
                                         x \in WrapperValues }
  \cup { JsonText(JsonNull) }

\* more non-empty lines than the sampler reads, with empty lines in between
LongLines ==
  [i \in 1..(MaxLines + 20) |->
     IF i % 10 = 0 THEN <<>> ELSE <<"Milano", ",", ToString(i)>>]

CsvBodies ==
  { LinesText(<<>>),
    LinesText(<< <<>>, <<"comune", ",", "anno">>, <<>> >>),
    LinesText(<< <<"comune", ";", "anno">>, <<>>, <<"Milano", ";", " ", "2023">>,
                 <<"Roma", ";", "2023">> >>),
    LinesText(<< <<"a", ";", "b", ";", "c">>,
                 <<"1", ";", "x", ",", "y", ",", "z", ",", "w", ";", "3">>,
                 <<"Milano", ",", "2022">> >>),
    LinesText(<< <<"a", ",", "b", ";", "c">>, <<"1", ";", "2", ",", "3">> >>),
    LinesText(<< <<"a", ";", "b", "TAB", "c">>, <<"1", "TAB", "2", ";", "3">> >>),
    LinesText(<< <<"a", "TAB", "b">>, <<"Milano", "TAB", " ", "2015", " ">>, <<" ">> >>),
    LinesText(<< <<" ", "comune", " ", ",", ",", " ", ",", "anno">>,
                 <<"Milano">>, <<"Roma", ",", "x", ",", "y", ",", "2022", ",", "z">> >>),
    LinesText(<< <<"a", ",", "a">>, <<"1", ",", "2">> >>),
    LinesText(<< <<"anno">>, <<"2015">>, <<"1999">> >>),
    LinesText(LongLines) }

SampleTexts == JsonBodies \cup CsvBodies

\* the years of extractKeywords, which do not depend on the question
sampleYears == extractKeywords(<<>>).years

InitSample ==
  /\ HandlerIdle
  /\ PlanIdle
  /\ DetIdle
  /\ CacheIdle
  /\ spc = "start"
  /\ stext \in SampleTexts
  /\ sexpect \in {"json", "csv"}
  /\ scity \in {Null, "Milano"}
  /\ ssample = NoSample
  /\ skept = <<>>

\* fetchSampleData from the decoded text on
ParseSample ==
  /\ spc = "start"
  /\ ssample' = parseSample(sexpect, stext)
  /\ spc' = "parsed"
  /\ UNCHANGED <<stext, sexpect, scity, skept>>
  /\ UNCHANGED <<hvars, pvars, dvars, cvars>>

\* if (sample.rows && sample.rows.length) { ... realData = ...; break outer }
FilterRows ==
  /\ spc = "parsed"
  /\ skept' = IF Len(ssample.rows) > 0
              THEN keptRows(ssample.rows, scity, sampleYears)
              ELSE <<>>
  /\ spc' = "done"
  /\ UNCHANGED <<stext, sexpect, scity, ssample>>
  /\ UNCHANGED <<hvars, pvars, dvars, cvars>>

NextSample ==
  \/ ParseSample
  \/ FilterRows

SpecSample == InitSample /\ [][NextSample]_vars

\* ------------------------------------------------------------------------
\* The search executor run twice over the same variant list with the same
\* stubbed responses; the two runs interleave freely
\* ------------------------------------------------------------------------
StubResponses ==
  { [kind |-> k, count |-> 0, results |-> <<>>] : k \in {"reject", "notOk", "badJson"} }
  \cup { [kind |-> "ok", count |-> c, results |-> rs] : c  \in {0, 60},
           rs \in {<<>>, LongResults} \cup { <<d>> : d \in DatasetPool } }

\* firstIndex that resumes where another run's loop stands
firstIndexShared(cursor) == IF cursor = 0 THEN 1 ELSE cursor

\* for (const v of variants): every run iterates the list from its first
\* variant, wherever the loop of another run stands
firstIndex(cursor) == 1

InitDet ==
  /\ HandlerIdle
  /\ PlanIdle
  /\ SampleIdle
  /\ CacheIdle
  /\ stub \in [1..NumVariants -> StubResponses]
  /\ runs = [r \in 1..2 |-> [pc |-> "idle", vi |-> 0, results |-> <<>>, attempts |-> 0,
                             selected |-> <<>>]]

\* let results = []; the loop starts
StartRun(r) ==
  /\ runs[r].pc = "idle"
  /\ LET other == CHOOSE o \in DOMAIN runs : o # r
     IN  runs' = [runs EXCEPT ![r] =
                    [pc |-> "search", vi |-> firstIndex(runs[other].vi), results |-> <<>>,
                     attempts |-> 0, selected |-> <<>>]]
  /\ UNCHANGED stub
  /\ UNCHANGED <<hvars, pvars, svars, cvars>>

\* one iteration of the variant loop and, after the last one, the
\* selection realDatasets = results.slice(0, 6)
StepRun(r) ==
  /\ runs[r].pc = "search"
  /\ LET me   == runs[r]
         resp == stub[me.vi]
         rs   == IF resp.kind = "ok" THEN resp.results ELSE me.results
         step == searchStep(resp)
     IN  runs' = [runs EXCEPT ![r] =
                    CASE step = "throw" ->
                           [me EXCEPT !.pc = "done", !.attempts = @ + 1]
                      [] step = "continue" /\ me.vi < NumVariants ->
                           [me EXCEPT !.vi = afterSkip(@), !.results = rs,
                                      !.attempts = @ + 1]
                      [] OTHER ->
                           [me EXCEPT !.pc = "done", !.results = rs, !.attempts = @ + 1,
                                      !.selected = Take(rs, MaxDatasets)]]
  /\ UNCHANGED stub
  /\ UNCHANGED <<hvars, pvars, svars, cvars>>

NextDet ==
  \/ \E r \in DOMAIN runs : StartRun(r)
  \/ \E r \in DOMAIN runs : StepRun(r)

SpecDet == InitDet /\ [][NextDet]_vars

\* ------------------------------------------------------------------------
\* The dataset-search cache handler: concurrent requests, each a select
\* followed by an update or an insert
\* ------------------------------------------------------------------------
InitCache ==
  /\ HandlerIdle
  /\ PlanIdle
  /\ SampleIdle
  /\ DetIdle
  /\ cacheRows = <<>>
  /\ uniqueTerm \in BOOLEAN
  /\ clients \in [1..NumClients ->
                    \* the request bodies: a query, or a body without one
                    { [IdleClient EXCEPT !.pc = "start", !.query = q] :
                        q \in {"Reati", "reati", "salute", Null} }]

\* const { query } = await request.json() and the select
CacheSelect(c) ==
  /\ clients[c].pc = "start"
  /\ IF clients[c].query = Null
     THEN \* query.toLowerCase() throws: the catch block answers 500
          clients' = [clients EXCEPT ![c].pc = "done", ![c].resp = "error"]
     ELSE LET term   == toLowerCase(clients[c].query)
              \* .eq('search_term', term): the positions of the matching rows
              hits   == { i \in 1..Len(cacheRows) : cacheRows[i].search_term = term }
              \* .single(): the row when exactly one matches, no data otherwise
              cached == IF Cardinality(hits) = 1 THEN CHOOSE i \in hits : TRUE ELSE 0
          IN  clients' = [clients EXCEPT
                            ![c].pc = IF cached # 0 THEN "hit" ELSE "miss",
                            ![c].cached = cached,
                            ![c].hit_count = IF cached # 0 THEN cacheRows[cached].hit_count
                                             ELSE 0,
                            ![c].seen = Cardinality(hits)]
  /\ UNCHANGED <<cacheRows, uniqueTerm>>
  /\ UNCHANGED <<hvars, pvars, svars, dvars>>

\* if (cached): update of hit_count, response with cached: true
CacheUpdate(c) ==
  /\ clients[c].pc = "hit"
  /\ cacheRows' = [cacheRows EXCEPT ![clients[c].cached].hit_count = clients[c].hit_count + 1]
  /\ clients' = [clients EXCEPT ![c].pc = "done", ![c].resp = "cached"]
  /\ UNCHANGED uniqueTerm
  /\ UNCHANGED <<hvars, pvars, svars, dvars>>

\* the insert of the new entry, response with cached: false; an insert
\* the table rejects returns an error the handler does not look at
CacheInsert(c) ==
  /\ clients[c].pc = "miss"
  /\ LET term == toLowerCase(clients[c].query)
         held == { i \in 1..Len(cacheRows) : cacheRows[i].search_term = term }
     IN  cacheRows' = IF uniqueTerm /\ held # {}
                      THEN cacheRows
                      ELSE Append(cacheRows, [search_term |-> term, hit_count |-> 0])
  /\ clients' = [clients EXCEPT ![c].pc = "done", ![c].resp = "fresh"]
  /\ UNCHANGED uniqueTerm
  /\ UNCHANGED <<hvars, pvars, svars, dvars>>

NextCache ==
  \/ \E c \in DOMAIN clients : CacheSelect(c)
  \/ \E c \in DOMAIN clients : CacheUpdate(c)
  \/ \E c \in DOMAIN clients : CacheInsert(c)

SpecCache == InitCache /\ [][NextCache]_vars

\* ------------------------------------------------------------------------
\* Properties
\* ------------------------------------------------------------------------
\* the requests of the variant loop (the first catalog request is the
\* facet discovery)
variantReqs == IF reqLog = <<>> THEN <<>> ELSE Tail(reqLog)

\* the most recent variant response satisfies the early-exit condition
lastHit == lastSearch.outcome = "ok" /\ lastSearch.count > 0 /\ lastSearch.n > 0

\* C1: the executor requests the variants one at a time in list order, and
\* once a response reports a positive count and a non-empty result list no
\* later variant is requested
C1_EarlyExit ==
  /\ Len(variantReqs) <= Len(variants)
  /\ \A k \in 1..Len(variantReqs) : variantReqs[k] = variants[k].url
  /\ lastHit => (pc # "search" /\ Len(variantReqs) = lastSearch.vi)

C1_Witness ==
  /\ pc = "done"
  /\ lastHit
  /\ lastSearch.vi = 2
  /\ Len(variants) > 2

\* C2: if no variant response satisfied the early-exit condition, the
\* dataset list of the executor is empty and nothing is sampled
C2_NoExitNoSampling ==
  exitAt = 0 => (realDatasets = <<>> /\ probed = {})

\* C3: a variant answered with a non-success status is skipped, not
\* requested again, and the next variant of the list is the next request
C3_NotOkSkipped ==
  (lastSearch.outcome = "notOk" /\ lastSearch.vi < Len(variants))
    => (pc = "search" /\ vi = lastSearch.vi + 1 /\ Len(variantReqs) = lastSearch.vi)

C3_Witness ==
  /\ lastSearch.outcome = "notOk"
  /\ lastSearch.vi = 2
  /\ pc = "search"
  /\ vi = 3

\* C4: a variant whose request fails at the transport level (rejected
\* fetch, undecodable body) is skipped and the next variant is requested
C4_TransportSkipped ==
  (lastSearch.outcome \in {"reject", "badJson"} /\ lastSearch.vi < Len(variants))
    => (pc = "search" /\ vi = lastSearch.vi + 1)

\* every variant was requested and none of the responses carried a dataset
allVariantsEmpty ==
  /\ Len(variants) > 0
  /\ lastSearch.vi = Len(variants)
  /\ ~sawDatasets

\* C5: when the catalog returns zero datasets for every variant the
\* invocation ends with hasRealData=false, no rows and no dataset
\* summaries, as a normal response
C5_NoDataOutcome ==
  (pc = "done" /\ allVariantsEmpty)
    => /\ response = [status |-> 200, hasRealData |-> FALSE, data |-> <<>>,
                      realDatasets |-> <<>>]
       /\ realData = <<>>

C5_Witness ==
  /\ pc = "done"
  /\ allVariantsEmpty
  /\ lastSearch.outcome = "ok"
  /\ kw.city = "Milano"
  /\ response.status = 200

\* C6: the generated variant list has no two variants with the same final
\* request (query text and filters)
C6_NoDuplicateVariants ==
  ppc = "done"
    => \A i, j \in 1..Len(ckan.variants) :
         i < j => ckan.variants[i].url # ckan.variants[j].url

\* the question contains a synonym of a topic of the ontology
MentionsTopic(question) ==
  \E e \in 1..Len(TOPIC_ONTOLOGY) : \E k \in 1..Len(TOPIC_ONTOLOGY[e].syns) :
    \E i \in 1..Len(question) :
      includes(toLowerCase(question[i]), TOPIC_ONTOLOGY[e].syns[k])

\* C7: for a question mentioning a known city and a known topic synonym
\* the variant list is sorted ascending by priority and has a variant of
\* priority 1 whose query text contains the geography token
C7_PriorityOneWithGeo ==
  (ppc = "done" /\ MentionsMilano(pquestion) /\ MentionsTopic(pquestion))
    => /\ \A i, j \in 1..Len(ckan.variants) :
            i < j => ckan.variants[i].priority <= ckan.variants[j].priority
       /\ normalized.geo.city # ""
       /\ \E i \in 1..Len(ckan.variants) :
            /\ ckan.variants[i].priority = 1
            /\ \E g \in 1..Len(ckan.variants[i].url.q.geo) :
                 ckan.variants[i].url.q.geo[g].w = normalized.geo.city

C7_Witness ==
  /\ ppc = "done"
  /\ MentionsMilano(pquestion)
  /\ MentionsTopic(pquestion)
  /\ llm.ok
  /\ Len(ckan.variants) = 4

\* a search scoped only by geography
geoOnly(u) == u.q.terms = <<>> /\ u.q.geo # <<>>

\* C8: when every targeted variant returned empty, exactly one additional
\* search scoped only by geography is issued before the no-data outcome if
\* the geography is known, and none if it is unknown
C8_BroadFallback ==
  (pc = "done" /\ allVariantsEmpty)
    => Cardinality({ i \in 1..Len(reqLog) : geoOnly(reqLog[i]) })
         = (IF kw.city # Null THEN 1 ELSE 0)

\* the declared or URL-inferred format of a resource
isJSON(r) ==
  includes(toLowerCase(OrElse(r.format, r.mimetype)), "json") \/ toLowerCase(r.url.ext) = ".json"

isCSV(r) ==
  ~isJSON(r)
  /\ (includes(toLowerCase(OrElse(r.format, r.mimetype)), "csv") \/ toLowerCase(r.url.ext) = ".csv")

\* the resources of dataset di handed to fetchSampleData
attempted(di) == { work[k].r : k \in { x \in probed : work[x].di = di } }

\* C9: when the sampling loops run to the end, the resources attempted of
\* each dataset are exactly those with a URL and a JSON or CSV format, and
\* every JSON resource is attempted before any CSV resource
C9_ResourceSelection ==
  sampleEnd = "exhausted"
    => \A di \in 1..Len(realDatasets) :
         /\ attempted(di) = { r \in SeqToSet(realDatasets[di].resources) :
                                r.url # NoUrl /\ (isJSON(r) \/ isCSV(r)) }
         /\ \A k1, k2 \in probed :
              (work[k1].di = di /\ work[k2].di = di
                 /\ isJSON(work[k1].r) /\ isCSV(work[k2].r)) => k1 < k2

\* C10 as stated: a probe declaring more than 1,000,000 bytes, whatever
\* its status, prevents the body fetch; the probe precedes the body fetch
C10_SizeCeilingAnyStatus ==
  /\ bigAt \cap fetched = {}
  /\ fetched \subseteq probed

\* C10, amended: a probe with a success status declaring more than
\* 1,000,000 bytes prevents the body fetch and the resource gives no rows;
\* the probe precedes the body fetch
C10_SizeCeiling ==
  /\ okBigAt \cap fetched = {}
  /\ fetched \subseteq probed
  /\ sampleEnd = "accepted" => wi \notin okBigAt

C10_Witness ==
  /\ pc = "done"
  /\ okBigAt # {}
  /\ fetched # {}
  /\ sampleEnd = "accepted"

\* the first 20 elements of a sequence
first20(rows) == SubSeq(rows, 1, IF Len(rows) < 20 THEN Len(rows) ELSE 20)

\* the value of the first of data, records, result that is an array
firstArray(json) ==
  IF json.data.t = "arr" THEN json.data.items
  ELSE IF json.records.t = "arr" THEN json.records.items
  ELSE IF json.result.t = "arr" THEN json.result.items
  ELSE <<>>

\* C11: a JSON resource gives the first 20 elements of a top-level array,
\* or of the first of data, records, result whose value is an array, and
\* no rows only if there is no such array or the document does not parse
C11_JsonUnwrapping ==
  (spc # "start" /\ sexpect = "json")
    => ssample.rows =
         (IF stext.kind # "json" \/ stext.json.top = "null" THEN <<>>
          ELSE IF stext.json.top = "array" THEN first20(stext.json.items)
          ELSE first20(firstArray(stext.json)))

\* the non-empty lines of a payload the sampler considers: the first 101
consideredLines(text) ==
  LET nonEmpty(l) == l # <<>>
      kept == SelectSeq(text.lines, nonEmpty)
  IN  SubSeq(kept, 1, IF Len(kept) < 101 THEN Len(kept) ELSE 101)

\* the name of header slot i: the trimmed token, col_i if it is empty
slotName(hs, i) == IF trim(hs[i]) # <<>> THEN trim(hs[i]) ELSE <<"col_" \o ToString(i)>>

\* the value a row holds under a name, <<"absent">> if it has no such key
valueAt(row, name) ==
  IF \E c \in 1..Len(row) : row[c].k = name
  THEN row[CHOOSE c \in 1..Len(row) : row[c].k = name].v
  ELSE <<"absent">>

headerDelim(line) ==
  LET n(d) == Cardinality({ i \in 1..Len(line) : line[i] = d })
  IN  IF n(",") >= n(";") /\ n(",") >= n("TAB") THEN ","
      ELSE IF n(";") >= n("TAB") THEN ";"
      ELSE "TAB"

\* C13: every line of a sample is split at the delimiter with the most
\* occurrences in the header line (comma on ties, then semicolon),
\* whatever delimiters occur in the data lines
C13_DelimiterFromHeader ==
  (spc # "start" /\ sexpect = "csv" /\ ssample.rows # <<>>)
    => LET lines == consideredLines(stext)
           d     == headerDelim(lines[1])
           hs    == split(lines[1], d)
       IN  \A j \in 1..Len(ssample.rows) :
             ssample.rows[j]
               = zipRow([i \in 1..Len(hs) |-> trim(hs[i])], split(lines[j + 1], d), Len(hs))

\* a header a;b;c and a data line with more commas than semicolons
C13_Witness ==
  /\ spc = "done"
  /\ sexpect = "csv"
  /\ stext.kind = "lines"
  /\ Len(stext.lines) > 1
  /\ stext.lines[1] = <<"a", ";", "b", ";", "c">>
  /\ Count(stext.lines[2], ",") > Count(stext.lines[2], ";")
  /\ Len(ssample.rows[1]) = 3
  /\ valueAt(ssample.rows[1], <<"c">>) = <<"3">>

\* the invocation ended with the no-data answer
noDataOutcome == pc = "done" /\ response.status = 200 /\ ~response.hasRealData

C15_BodyFailureTryNext ==
  pc = "done" => \A k \in failedAt : k < Len(work) => (k + 1) \in probed

\* the serialized row contains the geography token, case-insensitively
hasGeo(row, city) ==
  \E i \in 1..Len(runsOf(row)) : includes(toLowerCase(runsOf(row)[i]), toLowerCase(city))

\* the serialized row contains a 4-digit year within [startYear, endYear]
yearInRange(row, years) ==
  \E i \in 1..Len(runsOf(row)) :
    /\ yearOf(runsOf(row)[i]) >= years.startYear
    /\ yearOf(runsOf(row)[i]) <= years.endYear

\* C16: with a known geography, if some row with the geography token has a
\* year in range, the accepted rows are exactly the rows with the
\* geography token, at most 20, in sample order
C16_RowFilter ==
  (/\ spc = "done"
   /\ scity # Null
   /\ \E j \in 1..Len(ssample.rows) :
        hasGeo(ssample.rows[j], scity) /\ yearInRange(ssample.rows[j], sampleYears))
    => skept = first20(SelectSeq(ssample.rows, LAMBDA row : hasGeo(row, scity)))

\* C17: with a known city, an invocation ending with hasRealData=true
\* handed at most 20 rows to the synthesis, each containing the city
C17_RowsContainCity ==
  (pc = "done" /\ response.hasRealData /\ kw.city # Null)
    => /\ Len(realData) <= 20
       /\ \A i \in 1..Len(realData) : hasGeo(realData[i], kw.city)

\* a sample passes the relevance test: some row (with the geography token,
\* if the geography is known) has a year in range
relevant(rows, city, years) ==
  \E j \in 1..Len(rows) :
    /\ city # Null => hasGeo(rows[j], city)
    /\ yearInRange(rows[j], years)

\* C18: a sample is accepted only if it passes the relevance test, and an
\* invocation in which no sample passes ends with hasRealData=false
C18_IrrelevantDiscarded ==
  /\ sampleEnd = "accepted" => relevant(sampled, kw.city, kw.years)
  /\ (pc = "done" /\ response.hasRealData) => relevant(sampled, kw.city, kw.years)

\* C19: without a geography, a non-empty sample is accepted exactly if
\* some row has a year in range
C19_NoGeoYearTest ==
  (spc = "done" /\ scity = Null /\ ssample.rows # <<>>)
    => (skept # <<>> <=> \E j \in 1..Len(ssample.rows) :
                           yearInRange(ssample.rows[j], sampleYears))

\* C20: every outcome carries at most 12 dataset summaries and at most
\* 20 rows
C20_ResultBounds ==
  /\ Len(response.realDatasets) <= 12
  /\ Len(realDatasets) <= 12
  /\ Len(realData) <= 20

\* a catalog response with more than 12 datasets, or a payload of more
\* rows than are kept
C20_Witness ==
  /\ pc = "done"
  /\ \/ /\ Len(results) > 12
        /\ response.realDatasets # <<>>
     \/ /\ Len(realData) = 20
        /\ response.hasRealData

\* C21: for a well-formed question whose record was created, an error
\* response comes only from the synthesis call: an invocation that made no
\* synthesis call ends with the no-data answer, whatever search or
\* sampling call failed, and a synthesis call is made only with accepted
\* rows
C21_GracefulDegradation ==
  (pc = "done" /\ request.kind = "ok" /\ query)
    => /\ response.status = 500 => openaiCalls = 1
       /\ openaiCalls = 0
            => /\ response.status = 200
               /\ ~response.hasRealData
               /\ response.data = <<>>
       /\ openaiCalls = 1 => realData # <<>>

\* a rejected search and, in another run, a rejected body fetch, both
\* ending with the no-data answer
C21_Witness ==
  /\ pc = "done"
  /\ request.kind = "ok"
  /\ \/ lastSearch.outcome = "reject"
     \/ failedAt # {}
  /\ response.status = 200
  /\ ~response.hasRealData

\* the years a question names: its 4-digit years or, without any, the
\* N years of "ultimi N anni" that end with the current year
questionYears(question) ==
  LET explicit == { yearOf(question[i]) : i \in 1..Len(question) } \ {0}
      spans == { numOf(question[i + 1]) : i \in { j \in 1..(Len(question) - 2) :
                                                    /\ toLowerCase(question[j]) = "ultimi"
                                                    /\ toLowerCase(question[j + 2]) = "anni" } }
      n == IF spans = {} THEN 0 ELSE CHOOSE k \in spans : TRUE
  IN  IF explicit # {} THEN explicit
      ELSE IF n > 0 THEN (CurrentYear - n + 1)..CurrentYear
      ELSE {}

\* C22: when llmExtract fails (network error, non-success status, reply
\* that is not JSON) intelligentQueryPlan still returns a NormalizedQuery,
\* and its city, years and topic are those found in the question by the
\* local heuristics
C22_LocalFallback ==
  (ppc \in {"plan", "done"} /\ ~llm.ok)
    => /\ normalized.original = pquestion
       /\ normalized.geo.city = (IF MentionsMilano(pquestion) THEN "Milano" ELSE "")
       /\ SeqToSet(normalized.years) = questionYears(pquestion)
       /\ normalized.topic.canonical = (IF MentionsTopic(pquestion) THEN "reati" ELSE "generico")

\* a reply that is not JSON to a question naming a city, a topic and a
\* span of years
C22_Witness ==
  /\ ppc = "done"
  /\ llm = [LlmNull EXCEPT !.why = "notJson"]
  /\ normalized.geo.city = "Milano"
  /\ normalized.topic.canonical = "reati"
  /\ Len(normalized.years) = 5

\* C23: with a remote reply, the merged city, years and topic are the
\* remote values where these are present and non-empty and the locally
\* detected ones otherwise; a remote topic with an empty canonical and
\* no synonyms yields the locally detected topic
C23_MergePolicy ==
  LET remoteTopicGiven ==
        llm.hasTopic /\ ~(llm.topic.canonical = "" /\ llm.topic.synonyms = <<>>)
  IN
  (ppc = "done" /\ llm.ok)
    => /\ normalized.geo.city
            = (IF llm.city # "" THEN llm.city ELSE (IF MentionsMilano(pquestion) THEN "Milano" ELSE ""))
       /\ SeqToSet(normalized.years)
            = (IF llm.years # <<>> THEN SeqToSet(llm.years) ELSE questionYears(pquestion))
       /\ remoteTopicGiven => normalized.topic = normalizeTopic(llm.topic)
       /\ ~remoteTopicGiven => normalized.topic.canonical = (IF MentionsTopic(pquestion) THEN "reati" ELSE "generico")

\* C24: the years of the normalized query are strictly ascending, so
\* without duplicates, and its canonical topic is never empty
C24_YearsAscendingTopicSet ==
  ppc \in {"plan", "done"}
    => /\ \A i, j \in 1..Len(normalized.years) :
            i < j => normalized.years[i] < normalized.years[j]
       /\ normalized.topic.canonical # ""

\* a reply with unordered, repeated years and an empty topic
C24_Witness ==
  /\ ppc = "done"
  /\ llm.ok
  /\ llm.years = <<2023, 2021, 2023>>
  /\ llm.topic.canonical = ""
  /\ normalized.years = <<2021, 2023>>
  /\ normalized.topic.canonical = "generico"

\* C25: whatever the extraction service replied, every year of the
\* normalized query is a 4-digit year
C25_YearsValidated ==
  ppc \in {"plan", "done"}
    => \A i \in 1..Len(normalized.years) :
         normalized.years[i] >= 1000 /\ normalized.years[i] <= 9999

\* C27: no request is repeated: every variant of the list is requested at
\* most once, and every candidate resource receives at most one probe
\* and at most one body fetch
C27_NoRetry ==
  LET callsOf(op) == SelectSeq(callLog, LAMBDA c : c.op = op)
  IN
  /\ \A i, j \in 1..Len(callLog) : i < j => callLog[i] # callLog[j]
  /\ Len(callsOf("search")) <= Len(variants)
  /\ Len(callsOf("head")) <= Len(work)
  /\ Len(callsOf("get")) <= Len(callsOf("head"))

\* a run with a skipped variant, a probe that was not followed by a body
\* fetch and a body fetch that gave no rows
C27_Witness ==
  LET callsOf(op) == SelectSeq(callLog, LAMBDA c : c.op = op)
  IN
  /\ pc = "done"
  /\ Len(callsOf("search")) >= 2
  /\ Len(callsOf("get")) >= 1
  /\ Len(callsOf("head")) > Len(callsOf("get"))
  /\ sampleEnd = "exhausted"

\* C28: the synthesis service is called only with at least one retained
\* row; with zero rows the invocation ends with the fixed no-data answer
\* and no synthesis call; hasRealData is true only after a synthesis call
\* made with rows
C28_SynthesisOnlyWithRows ==
  /\ openaiCalls > 0 => realData # <<>>
  /\ (pc = "done" /\ request.kind = "ok" /\ query /\ realData = <<>>)
       => /\ openaiCalls = 0
          /\ response.status = 200
          /\ ~response.hasRealData
          /\ response.data = <<>>
  /\ (pc = "done" /\ response.hasRealData) => (openaiCalls = 1 /\ realData # <<>>)

\* one run that ends with a synthesized answer over retained rows
C28_Witness ==
  /\ pc = "done"
  /\ openaiCalls = 1
  /\ realData # <<>>
  /\ response.hasRealData

\* C29: the record is created as 'processing' before any discovery
\* request; an invocation that created it ends with exactly one terminal
\* status, 'completed' or 'failed', written after it; 'completed' is never
\* followed by 'failed'
C29_RecordLifecycle ==
  /\ reqLog # <<>> => (query /\ dbWrites # <<>> /\ dbWrites[1] = "processing")
  /\ (query /\ pc # "done") => dbWrites = <<"processing">>
  /\ (query /\ pc = "done")
       => dbWrites \in {<<"processing", "completed">>, <<"processing", "failed">>}
  /\ \A i, j \in 1..Len(dbWrites) :
       i < j => ~(dbWrites[i] = "completed" /\ dbWrites[j] = "failed")

\* a run that fails in the synthesis call, after the discovery
C29_Witness ==
  /\ pc = "done"
  /\ reqLog # <<>>
  /\ openaiCalls = 1
  /\ dbWrites = <<"processing", "failed">>

C30_CacheSingleEntry ==
  /\ \A i, j \in 1..Len(cacheRows) :
       i < j => cacheRows[i].search_term # cacheRows[j].search_term
  /\ \A c \in DOMAIN clients :
       (clients[c].pc = "done" /\ clients[c].seen >= 1) => clients[c].resp = "cached"

====
